---------------------------- MODULE Spec2Model ----------------------------
(***************************************************************************)
(* SVD image compression (Andradhi/Image_Compress).                        *)
(*                                                                         *)
(* Two programs are modelled:                                              *)
(*   - svd_compressor.compress_image_svd and the "/" route of app.py that  *)
(*     calls it (specification Spec);                                      *)
(*   - the SVDImageCompressor class of src/app.py, its module-level        *)
(*     instance `compressor` and the "/compress" route, with two request   *)
(*     threads (specification SpecApp).                                    *)
(*                                                                         *)
(* Pixel values are not modelled: an array is its shape, the singular      *)
(* value decomposition is a step that either yields a channel of the same  *)
(* shape or raises LinAlgError.                                            *)
(***************************************************************************)
EXTENDS Integers, Naturals, Sequences, FiniteSets, TLC

(***************************************************************************)
(* Bounds of the model.                                                    *)
(***************************************************************************)
MaxDim == 4

MaxPct == 101

\* Image sides: the small ones, and the sizes of the spec's scenarios
\* (100x150) and of the first side at which 1 percent exceeds rank 1.
Dims == (1..MaxDim) \cup {100, 150, 200}

\* Values of compression_rate_percentage handed to the code.
Percentages == 0..MaxPct

ValidPercentages == 1..100

\* Image modes PIL decodes the allowed file types to.
Modes == {"L", "LA", "RGB", "RGBA"}

Min(a, b) == IF a <= b THEN a ELSE b

Max(a, b) == IF a >= b THEN a ELSE b

(***************************************************************************)
(* Double-precision arithmetic of int(max_k * (p / 100.0)).                *)
(*                                                                         *)
(* p / 100.0 is the double nearest to p/100: m / 2^E with                  *)
(* 2^52 <= m < 2^53, so E = 52 + BinExp(p) where BinExp(p) is the least e  *)
(* with p * 2^e >= 100, and m = (p * 2^E - DivResidual(p)) / 100 where the *)
(* residual is the signed remainder of p * 2^E modulo 100 nearest to 0.    *)
(* The product max_k * (m / 2^E) is then rounded to nearest, ties to even, *)
(* and int() truncates.  With n = (max_k * p) \div 100:                    *)
(*   - if 100 does not divide max_k * p the exact product lies at least    *)
(*     1/100 - 2^-30 away from n and n + 1, and the result is n;           *)
(*   - otherwise the exact product is n - max_k * residual / (100 * 2^E):  *)
(*     it truncates to n unless it is below n by more than half the gap    *)
(*     between n and the double before n, and then the result is n - 1.    *)
(***************************************************************************)
RECURSIVE Pow2(_)
Pow2(n) == IF n = 0 THEN 1 ELSE 2 * Pow2(n - 1)

RECURSIVE Pow2Mod100(_)
Pow2Mod100(n) == IF n = 0 THEN 1 ELSE (2 * Pow2Mod100(n - 1)) % 100

RECURSIVE Log2Floor(_)
Log2Floor(n) == IF n < 2 THEN 0 ELSE 1 + Log2Floor(n \div 2)

BinExp(p) == CHOOSE e \in 0..7 : /\ p * Pow2(e) >= 100
                                 /\ (e = 0 \/ p * Pow2(e - 1) < 100)

DivResidual(p) ==
    LET rem == (p * Pow2Mod100(52 + BinExp(p))) % 100
    IN  IF rem < 50 THEN rem ELSE rem - 100

\* Variant: the product rounded to the nearest integer, not truncated.
FloatTruncRound(x, p) == (2 * x * p + 100) \div 200

\* int(x * (p / 100.0)) for an integer x >= 1 and an integer p >= 0

FloatTrunc(x, p) ==
    LET n == (x * p) \div 100
        r == IF p = 0 THEN 0 ELSE DivResidual(p)
    IN  IF (x * p) % 100 # 0 \/ r <= 0 \/ n = 0
        THEN n
        ELSE LET L  == Log2Floor(n)
                 sh == BinExp(p) + L - (IF Pow2(L) = n THEN 2 ELSE 1)
                 lhs == IF sh >= 0 THEN x * r ELSE x * r * Pow2(0 - sh)
                 rhs == IF sh >= 0 THEN 100 * Pow2(sh) ELSE 100
             IN  IF lhs <= rhs THEN n ELSE n - 1


(***************************************************************************)
(* State.                                                                  *)
(*                                                                         *)
(* svd_compressor.compress_image_svd and its callers: the position pc in   *)
(* the call, the function's arguments and locals under their own names,    *)
(* the wall clock `now` (one tick per step), the content of the output     *)
(* directory, what the call returned or raised, and the route's response.  *)
(* An array is its shape, <<height, width>> or <<height, width, depth>>;   *)
(* <<>> is a local not yet assigned, -1 a time not yet taken.              *)
(*                                                                         *)
(* src/app.py: the fields of the module-level `compressor`, the uploads    *)
(* folder, and per request thread its position, inputs, locals and         *)
(* response.                                                               *)
(***************************************************************************)
VARIABLES pc, caller, compression_rate, file, percentage, now,
          start_time, end_time,
          img_array, max_k, k, i, compressed_channels, compressed_img_array,
          output_dir, result, raised, response,
          compressor, uploads, rpc, req, loc, resp

coreVars == <<pc, caller, compression_rate, file, percentage, now, start_time,
              end_time, img_array, max_k, k, i, compressed_channels,
              compressed_img_array, output_dir, result, raised, response>>

appVars == <<compressor, uploads, rpc, req, loc, resp>>

vars == <<coreVars, appVars>>

NoFile == [kind |-> "none", mode |-> "RGB", height |-> 1, width |-> 1]

NoResult == [path |-> "unset", runtime_ms |-> 0, metric |-> <<0, 1>>]

\* The files a caller can hand over: a decodable image of some mode and
\* size, or bytes that PIL cannot decode.
ImageFiles == [kind : {"image"}, mode : Modes, height : Dims, width : Dims]

GarbageFile == [kind |-> "garbage", mode |-> "RGB", height |-> 1, width |-> 1]

MissingFile == [kind |-> "missing", mode |-> "RGB", height |-> 1, width |-> 1]

\* np.array(Image.open(path)): the shape PIL gives each mode.
Bands(mode) == CASE mode = "L"    -> 1
                 [] mode = "LA"   -> 2
                 [] mode = "RGB"  -> 3
                 [] mode = "RGBA" -> 4

DecodedShape(f) == IF f.mode = "L"
                   THEN <<f.height, f.width>>
                   ELSE <<f.height, f.width, Bands(f.mode)>>

\* Lines 36-50: the channel normalisation, on the shape.
Normalize(shape) ==
    LET a == IF Len(shape) = 2 THEN <<shape[1], shape[2], 3>>
             ELSE IF Len(shape) = 3 /\ shape[3] = 4
                  THEN <<shape[1], shape[2], 3>>
                  ELSE shape
    IN  IF Len(a) # 3 \/ a[3] # 3
        THEN IF Len(a) = 2 THEN <<a[1], a[2], 3>>
             ELSE IF Len(a) = 3 /\ a[3] > 3 THEN <<a[1], a[2], 3>>
                  ELSE a
        ELSE a

\* Variants: the rank without max(1, k), and the rank taken from the
\* percentage removed instead of the percentage kept.
RankNoFloor(mk, p) == Min(mk, FloatTrunc(mk, p))

RankFromComplement(mk, p) == Min(mk, Max(1, FloatTrunc(mk, 100 - p)))

\* Lines 55-60: the rank from the percentage.
Rank(mk, p) == Min(mk, Max(1, FloatTrunc(mk, p)))

\* Variant: the retained fraction itself, without the complement.
MetricRetained(kk, mk) == <<100 * kk, mk>>

\* Line 90: 100.0 * (1.0 - (k / max_k)), as the fraction <<num, den>>.
\* Division, subtraction and multiplication in double precision are
\* monotone, so the order of two metrics is the order of their fractions.

Metric(kk, mk) == <<100 * (mk - kk), mk>>

FracLeq(a, b) == a[1] * b[2] <= b[1] * a[2]

FracEq(a, b) == a[1] * b[2] = b[1] * a[2]

CoreInit ==
    /\ pc = "idle"
    /\ caller = "none"
    /\ compression_rate = -1
    /\ file = NoFile
    /\ percentage = 0
    /\ now = 0
    /\ start_time = -1
    /\ end_time = -1
    /\ img_array = <<>>
    /\ max_k = 0
    /\ k = 0
    /\ i = 0
    /\ compressed_channels = <<>>
    /\ compressed_img_array = <<>>
    /\ output_dir = {}
    /\ result = NoResult
    /\ raised = "none"
    /\ response = "none"


(***************************************************************************)
(* Callers of compress_image_svd.                                          *)
(***************************************************************************)
\* app.py 32, 65-69: a GET renders the page with nothing to show.
IndexGet ==
    /\ pc = "idle"
    /\ pc' = "responded"
    /\ caller' = "index"
    /\ response' = "page"
    /\ UNCHANGED <<compression_rate, file, percentage, now, start_time,
                   end_time, img_array, max_k, k, i, compressed_channels,
                   compressed_img_array, output_dir, result, raised>>
    /\ UNCHANGED appVars

\* app.py 34-43, 65-69: a POST without a file part, without a file name, or
\* with a file type that is not allowed; nothing is saved or compressed.
IndexPostNoFile ==
    /\ pc = "idle"
    /\ \E why \in {"No image file part", "No selected file", "page"} :
          response' = why
    /\ pc' = "responded"
    /\ caller' = "index"
    /\ UNCHANGED <<compression_rate, file, percentage, now, start_time,
                   end_time, img_array, max_k, k, i, compressed_channels,
                   compressed_img_array, output_dir, result, raised>>
    /\ UNCHANGED appVars

\* Variant: only the upper end of the range is checked.
RateAcceptedUpTo100(rate) == rate <= 100

\* app.py 51: 1 <= compression_rate <= 100
RateAccepted(rate) == 1 <= rate /\ rate <= 100

\* app.py 43-57: the upload is stored, the rate is parsed and validated,
\* and compress_image_svd is called with it; a rate that int() rejects or
\* that is outside 1..100 ends the request with a message.
IndexPost ==
    /\ pc = "idle"
    /\ caller' = "index"
    /\ \E f \in ImageFiles \cup {GarbageFile} :
          /\ file' = f
          /\ \/ /\ response' = "Invalid compression rate"
                /\ pc' = "responded"
                /\ UNCHANGED <<compression_rate, percentage>>
             \/ \E rate \in Percentages :
                   /\ compression_rate' = rate
                   /\ IF ~RateAccepted(rate)
                      THEN /\ response' =
                                 "Compression rate must be between 1 and 100"
                           /\ pc' = "responded"
                           /\ UNCHANGED percentage
                      ELSE /\ percentage' = rate
                           /\ pc' = "start"
                           /\ UNCHANGED response
    /\ UNCHANGED <<now, start_time, end_time, img_array, max_k, k, i,
                   compressed_channels, compressed_img_array, output_dir,
                   result, raised>>
    /\ UNCHANGED appVars

\* svd_compressor.py 104, 110, and any importer of the module: the function
\* is called directly, with whatever path and percentage the caller has.
DirectCall ==
    /\ pc = "idle"
    /\ caller' = "direct"
    /\ \E f \in ImageFiles \cup {GarbageFile, MissingFile}, p \in Percentages :
          /\ file' = f
          /\ percentage' = p
    /\ pc' = "start"
    /\ UNCHANGED <<compression_rate, now, start_time, end_time, img_array,
                   max_k, k, i, compressed_channels, compressed_img_array,
                   output_dir, result, raised, response>>
    /\ UNCHANGED appVars

(***************************************************************************)
(* compress_image_svd, statement by statement.                             *)
(***************************************************************************)
\* Variant: the time is not taken on entry.
StartUntimed ==
    /\ pc = "start"
    /\ now' = now + 1
    /\ pc' = "open"
    /\ UNCHANGED <<caller, compression_rate, file, percentage, start_time,
                   end_time, img_array, max_k, k, i, compressed_channels,
                   compressed_img_array, output_dir, result, raised,
                   response>>
    /\ UNCHANGED appVars

\* 23-24: start_time = time.time(); os.makedirs(output_dir)
Start ==
    /\ pc = "start"
    /\ start_time' = now
    /\ now' = now + 1
    /\ pc' = "open"
    /\ UNCHANGED <<caller, compression_rate, file, percentage, end_time,
                   img_array, max_k, k, i, compressed_channels,
                   compressed_img_array, output_dir, result, raised,
                   response>>
    /\ UNCHANGED appVars

\* Variant: only FileNotFoundError is handled.
OpenFailsMissingOnly(f) == f.kind = "missing"

\* 27-34: Image.open or np.array raises, for a path that does not exist
\* (FileNotFoundError) or bytes that are no image (any other Exception).
OpenFails(f) == f.kind # "image"

\* 26-34: Image.open and np.array; any failure returns (None, 0, 0)
Open ==
    /\ pc = "open"
    /\ now' = now + 1
    /\ IF ~OpenFails(file)
       THEN /\ img_array' = DecodedShape(file)
            /\ pc' = "normalize"
            /\ UNCHANGED result
       ELSE /\ result' = [path |-> "None", runtime_ms |-> 0,
                          metric |-> <<0, 1>>]
            /\ pc' = "returned"
            /\ UNCHANGED img_array
    /\ UNCHANGED <<caller, compression_rate, file, percentage, start_time,
                   end_time, max_k, k, i, compressed_channels,
                   compressed_img_array, output_dir, raised, response>>
    /\ UNCHANGED appVars

\* 36-50
NormalizeChannels ==
    /\ pc = "normalize"
    /\ now' = now + 1
    /\ img_array' = Normalize(img_array)
    /\ pc' = "rank"
    /\ UNCHANGED <<caller, compression_rate, file, percentage, start_time,
                   end_time, max_k, k, i, compressed_channels,
                   compressed_img_array, output_dir, result, raised,
                   response>>
    /\ UNCHANGED appVars

\* 52-62
SelectRank ==
    /\ pc = "rank"
    /\ now' = now + 1
    /\ max_k' = Min(img_array[1], img_array[2])
    /\ k' = Rank(Min(img_array[1], img_array[2]), percentage)
    /\ compressed_channels' = <<>>
    /\ i' = 0
    /\ pc' = "svd"
    /\ UNCHANGED <<caller, compression_rate, file, percentage, start_time,
                   end_time, img_array, compressed_img_array, output_dir,
                   result, raised, response>>
    /\ UNCHANGED appVars

\* 63-69: one iteration of the loop over the channels; np.linalg.svd
\* raises LinAlgError when it does not converge, and nothing catches it.
SvdChannel ==
    /\ pc = "svd"
    /\ i < img_array[3]
    /\ now' = now + 1
    /\ \/ /\ compressed_channels' =
                Append(compressed_channels, <<img_array[1], img_array[2]>>)
          /\ i' = i + 1
          /\ UNCHANGED <<pc, raised>>
       \/ /\ raised' = "LinAlgError"
          /\ pc' = "raised"
          /\ UNCHANGED <<i, compressed_channels>>
    /\ UNCHANGED <<caller, compression_rate, file, percentage, start_time,
                   end_time, img_array, max_k, k, compressed_img_array,
                   output_dir, result, response>>
    /\ UNCHANGED appVars

\* 71-76: np.stack(axis=-1), np.clip, astype(uint8), Image.fromarray
Reassemble ==
    /\ pc = "svd"
    /\ i = img_array[3]
    /\ now' = now + 1
    /\ compressed_img_array' = <<compressed_channels[1][1],
                                 compressed_channels[1][2],
                                 Len(compressed_channels)>>
    /\ pc' = "save"
    /\ UNCHANGED <<caller, compression_rate, file, percentage, start_time,
                   end_time, img_array, max_k, k, i, compressed_channels,
                   output_dir, result, raised, response>>
    /\ UNCHANGED appVars

\* 78-85: the output file is written, or the write raises OSError
Save ==
    /\ pc = "save"
    /\ now' = now + 1
    /\ \/ /\ output_dir' = output_dir \cup
                {[percentage |-> percentage, shape |-> compressed_img_array]}
          /\ pc' = "stop"
          /\ UNCHANGED raised
       \/ /\ raised' = "OSError"
          /\ pc' = "raised"
          /\ UNCHANGED output_dir
    /\ UNCHANGED <<caller, compression_rate, file, percentage, start_time,
                   end_time, img_array, max_k, k, i, compressed_channels,
                   compressed_img_array, result, response>>
    /\ UNCHANGED appVars

\* 87-92: end_time, runtime_ms, pixel_difference_percentage, return
StopAndReturn ==
    /\ pc = "stop"
    /\ end_time' = now
    /\ now' = now + 1
    /\ result' = [path |-> "compressed", runtime_ms |-> now - start_time,
                  metric |-> Metric(k, max_k)]
    /\ pc' = "returned"
    /\ UNCHANGED <<caller, compression_rate, file, percentage, start_time,
                   img_array, max_k, k, i, compressed_channels,
                   compressed_img_array, output_dir, raised, response>>
    /\ UNCHANGED appVars

\* app.py 59-69: the route shows the result, or that compression failed;
\* an exception out of compress_image_svd becomes Flask's 500 response.
IndexRespond ==
    /\ caller = "index"
    /\ pc \in {"returned", "raised"}
    /\ response' = IF pc = "raised" THEN "500"
                   ELSE IF result.path # "None" THEN "result"
                   ELSE "Image compression failed"
    /\ pc' = "responded"
    /\ UNCHANGED <<caller, compression_rate, file, percentage, now,
                   start_time, end_time, img_array, max_k, k, i,
                   compressed_channels, compressed_img_array, output_dir,
                   result, raised>>
    /\ UNCHANGED appVars


(***************************************************************************)
(* src/app.py: SVDImageCompressor, the shared `compressor`, and /compress. *)
(***************************************************************************)
Reqs == {1, 2}

\* An image value: the request whose data it holds (0: None), its shape and
\* the rank it was truncated to (0: not compressed).
NoImage == [by |-> 0, shape |-> <<>>, k |-> 0]

FileNames == {"a.png", "b"}

OutputName(fn) == IF fn = "a.png" THEN "compressed_a.png" ELSE "compressed_b"

HasExtension(fn) == fn = "a.png"

Paths == FileNames \cup {OutputName(fn) : fn \in FileNames}

AppShapes == {<<3, 2>>, <<200, 200>>}

\* What a request uploads: an image (decodable) or other bytes.
AppUploads == [decodable : {TRUE}, shape : AppShapes]
              \cup {[decodable |-> FALSE, shape |-> <<1, 1>>]}

AppRates == {0, 1, 50, 101}

NoReq == [filename |-> "a.png", rate |-> 0,
          upload |-> [decodable |-> FALSE, shape |-> <<1, 1>>]]

NoLoc == [original_image |-> NoImage, compressed_image |-> NoImage,
          computed |-> NoImage, stats |-> -1, saved |-> NoImage,
          temp_saved |-> FALSE]

NoResp == [status |-> "none", compression_time |-> -1]

\* Lines 82-84: k = max(1, int(max_rank * compression_rate)), where the
\* route passes compression_rate = float(rate) / 100.0.
RankApp(mk, p) == Max(1, FloatTrunc(mk, p))

AppInit ==
    /\ compressor = [original_image |-> NoImage, compressed_image |-> NoImage,
                     compression_time |-> 0]
    /\ uploads = [pth \in Paths |-> 0]
    /\ rpc = [r \in Reqs |-> "idle"]
    /\ req = [r \in Reqs |-> NoReq]
    /\ loc = [r \in Reqs |-> NoLoc]
    /\ resp = [r \in Reqs |-> NoResp]

\* Line 226-227: any exception ends the request with a 500 response.
Fail(r) ==
    /\ rpc' = [rpc EXCEPT ![r] = "done"]
    /\ resp' = [resp EXCEPT ![r] = [status |-> "500", compression_time |-> -1]]

\* 176-191: the request arrives and is validated.
Receive(r) ==
    /\ rpc[r] = "idle"
    /\ \/ /\ rpc' = [rpc EXCEPT ![r] = "done"]
          /\ resp' = [resp EXCEPT ![r] = [status |-> "400",
                                          compression_time |-> -1]]
          /\ UNCHANGED req
       \/ /\ Fail(r)
          /\ UNCHANGED req
       \/ \E fn \in FileNames, u \in AppUploads, p \in AppRates :
             /\ req' = [req EXCEPT ![r] = [filename |-> fn, upload |-> u,
                                           rate |-> p]]
             /\ IF p < 1 \/ p > 100
                THEN /\ rpc' = [rpc EXCEPT ![r] = "done"]
                     /\ resp' = [resp EXCEPT ![r] = [status |-> "400",
                                                     compression_time |-> -1]]
                ELSE /\ rpc' = [rpc EXCEPT ![r] = "save_temp"]
                     /\ UNCHANGED resp
    /\ UNCHANGED <<compressor, uploads, loc>>
    /\ UNCHANGED coreVars

\* 193-196: image_file.save(temp_path)
SaveTemp(r) ==
    /\ rpc[r] = "save_temp"
    /\ uploads' = [uploads EXCEPT ![req[r].filename] = r]
    /\ loc' = [loc EXCEPT ![r].temp_saved = TRUE]
    /\ rpc' = [rpc EXCEPT ![r] = "load"]
    /\ UNCHANGED <<compressor, req, resp>>
    /\ UNCHANGED coreVars

\* 199, 39-64: compressor.load_image(temp_path) reads whatever is at the
\* path now, converts it to RGB and stores it in self.original_image.
LoadImage(r) ==
    /\ rpc[r] = "load"
    /\ LET owner == uploads[req[r].filename]
       IN  IF owner = 0 \/ ~req[owner].upload.decodable
           THEN /\ Fail(r)
                /\ UNCHANGED <<compressor, loc>>
           ELSE LET img == [by |-> owner,
                            shape |-> <<req[owner].upload.shape[1],
                                        req[owner].upload.shape[2], 3>>,
                            k |-> 0]
                IN  /\ compressor' = [compressor EXCEPT !.original_image = img]
                    /\ loc' = [loc EXCEPT ![r].original_image = img]
                    /\ rpc' = [rpc EXCEPT ![r] = "compress"]
                    /\ UNCHANGED resp
    /\ UNCHANGED <<uploads, req>>
    /\ UNCHANGED coreVars

\* 200, 77-106: the decomposition of the argument, in locals of the method;
\* np.linalg.svd may raise, which line 113 turns into an Exception.
Compress(r) ==
    /\ rpc[r] = "compress"
    /\ \/ /\ LET a  == loc[r].original_image
                 mk == Min(a.shape[1], a.shape[2])
             IN  loc' = [loc EXCEPT ![r].computed =
                            [by |-> a.by, shape |-> a.shape,
                             k |-> RankApp(mk, req[r].rate)]]
          /\ rpc' = [rpc EXCEPT ![r] = "store_time"]
          /\ UNCHANGED resp
       \/ /\ Fail(r)
          /\ UNCHANGED loc
    /\ UNCHANGED <<compressor, uploads, req>>
    /\ UNCHANGED coreVars

\* 108: self.compression_time = time.time() - start_time
StoreTime(r) ==
    /\ rpc[r] = "store_time"
    /\ compressor' = [compressor EXCEPT !.compression_time = r]
    /\ rpc' = [rpc EXCEPT ![r] = "store_image"]
    /\ UNCHANGED <<uploads, req, loc, resp>>
    /\ UNCHANGED coreVars

\* 109-111: self.compressed_image = compressed_image; return it
StoreImage(r) ==
    /\ rpc[r] = "store_image"
    /\ compressor' = [compressor EXCEPT !.compressed_image = loc[r].computed]
    /\ loc' = [loc EXCEPT ![r].compressed_image = loc[r].computed]
    /\ rpc' = [rpc EXCEPT ![r] = "stats"]
    /\ UNCHANGED <<uploads, req, resp>>
    /\ UNCHANGED coreVars

\* 202-206, 116-133: calculate_compression_ratio reads the fields of the
\* shared object; array_to_base64 encodes the two local arrays.
Stats(r) ==
    /\ rpc[r] = "stats"
    /\ loc' = [loc EXCEPT ![r].stats =
                  IF compressor.original_image = NoImage
                     \/ compressor.compressed_image = NoImage
                  THEN -1
                  ELSE compressor.compression_time]
    /\ rpc' = [rpc EXCEPT ![r] = "save"]
    /\ UNCHANGED <<compressor, uploads, req, resp>>
    /\ UNCHANGED coreVars

\* 209-211, 135-147: save_compressed_image writes self.compressed_image;
\* PIL raises ValueError for a file name without an extension.
SaveCompressed(r) ==
    /\ rpc[r] = "save"
    /\ IF \/ compressor.compressed_image = NoImage
          \/ ~HasExtension(req[r].filename)
       THEN /\ Fail(r)
            /\ UNCHANGED <<uploads, loc>>
       ELSE /\ uploads' = [uploads EXCEPT ![OutputName(req[r].filename)] =
                              compressor.compressed_image.by]
            /\ loc' = [loc EXCEPT ![r].saved = compressor.compressed_image]
            /\ rpc' = [rpc EXCEPT ![r] = "remove"]
            /\ UNCHANGED resp
    /\ UNCHANGED <<compressor, req>>
    /\ UNCHANGED coreVars

\* 213: os.remove(temp_path); FileNotFoundError when it is gone already
RemoveTemp(r) ==
    /\ rpc[r] = "remove"
    /\ IF uploads[req[r].filename] = 0
       THEN /\ Fail(r)
            /\ UNCHANGED uploads
       ELSE /\ uploads' = [uploads EXCEPT ![req[r].filename] = 0]
            /\ rpc' = [rpc EXCEPT ![r] = "respond"]
            /\ UNCHANGED resp
    /\ UNCHANGED <<compressor, req, loc>>
    /\ UNCHANGED coreVars

\* 215-224
Respond(r) ==
    /\ rpc[r] = "respond"
    /\ resp' = [resp EXCEPT ![r] = [status |-> "200",
                                    compression_time |-> loc[r].stats]]
    /\ rpc' = [rpc EXCEPT ![r] = "done"]
    /\ UNCHANGED <<compressor, uploads, req, loc>>
    /\ UNCHANGED coreVars

(***************************************************************************)
(* Specifications.                                                         *)
(***************************************************************************)
Init == CoreInit /\ AppInit

Next ==
    \/ IndexGet
    \/ IndexPostNoFile
    \/ IndexPost
    \/ DirectCall
    \/ Start
    \/ Open
    \/ NormalizeChannels
    \/ SelectRank
    \/ SvdChannel
    \/ Reassemble
    \/ Save
    \/ StopAndReturn
    \/ IndexRespond

Spec == Init /\ [][Next]_vars

NextApp ==
    \E r \in Reqs :
       \/ Receive(r)
       \/ SaveTemp(r)
       \/ LoadImage(r)
       \/ Compress(r)
       \/ StoreTime(r)
       \/ StoreImage(r)
       \/ Stats(r)
       \/ SaveCompressed(r)
       \/ RemoveTemp(r)
       \/ Respond(r)

SpecApp == Init /\ [][NextApp]_vars


(***************************************************************************)
(* Properties of compress_image_svd (specification Spec).                  *)
(***************************************************************************)
\* max_k is assigned once, by SelectRank, together with k.
RankSelected == max_k > 0

Succeeded == pc = "returned" /\ result.path = "compressed"

\* round(x * p / 100), halves to the even neighbour as Python rounds
RoundHalfEven(x, p) ==
    LET n   == (x * p) \div 100
        rem == (x * p) % 100
    IN  IF rem < 50 THEN n
        ELSE IF rem > 50 THEN n + 1
        ELSE IF n % 2 = 0 THEN n ELSE n + 1

\* C1 as claimed: for every percentage in 1..100 the rank used is
\* min(max_k, max(1, round(max_k * p / 100))).
C1_RoundedRank ==
    (RankSelected /\ percentage \in ValidPercentages)
        => k = Min(max_k, Max(1, RoundHalfEven(max_k, percentage)))

\* C1 as amended: the product is truncated, not rounded.  The rank is
\* min(max_k, max(1, t)) with t = int(max_k * (p / 100.0)); t is
\* floor(max_k * p / 100), except that in double precision it can be one
\* less when max_k * p is a multiple of 100; a 4x4 image at 50 gives k = 2.
C1_TruncatedRank ==
    (RankSelected /\ percentage \in ValidPercentages)
        => LET n == (max_k * percentage) \div 100
           IN  /\ Min(max_k, Max(1, n - 1)) <= k
               /\ k <= Min(max_k, Max(1, n))
               /\ (max_k * percentage) % 100 # 0 => k = Min(max_k, Max(1, n))
               /\ (max_k = 4 /\ percentage = 50) => k = 2

\* A 3x3 image at 50 percent was compressed with rank 1, where rounding
\* 1.5 would give 2.
C1_Witness ==
    /\ Succeeded
    /\ max_k = 3
    /\ percentage = 50
    /\ k = 1

\* C2 as claimed: percentage = 1 gives rank 1 exactly, whatever the size.
C2_AlwaysRankOne ==
    (RankSelected /\ percentage = 1) => k = 1

\* C2 as amended: percentage = 1 never gives rank 0; it gives rank 1
\* exactly when min(height, width) < 200, and at least 2 from 200 on.
C2_RankOneBelow200 ==
    (RankSelected /\ percentage = 1)
        => /\ k >= 1
           /\ max_k < 200 => k = 1
           /\ max_k >= 200 => k >= 2

\* A 200x200 image was compressed at 1 percent with rank 2.
C2_Witness ==
    /\ Succeeded
    /\ percentage = 1
    /\ max_k = 200
    /\ k = 2

\* C3 as claimed, on its effect: with a percentage outside 1..100 no
\* compressed image is saved and no path or metrics are returned.
C3_InvalidRateProducesNothing ==
    (pc # "idle" /\ caller = "direct" /\ percentage \notin ValidPercentages)
        => /\ output_dir = {}
           /\ result.path # "compressed"

\* C3 as amended: the route rejects a rate outside 1..100 before the call,
\* so nothing is compressed, saved or measured for it, and it only ever
\* calls with a percentage in 1..100; compress_image_svd itself does not
\* validate: called directly with such a percentage on a decodable image it
\* clamps the rank (to 1 below the range, to max_k above it) and, unless
\* the decomposition or the save raises, saves and returns a result.
C3_RouteValidates ==
    /\ (caller = "index" /\ compression_rate # -1
            /\ compression_rate \notin ValidPercentages)
          => /\ pc = "responded"
             /\ response = "Compression rate must be between 1 and 100"
             /\ start_time = -1
             /\ output_dir = {}
             /\ result = NoResult
    /\ (caller = "index" /\ start_time # -1)
          => percentage \in ValidPercentages
    /\ (caller = "direct" /\ pc = "returned" /\ file.kind = "image"
            /\ percentage \notin ValidPercentages)
          => /\ result.path = "compressed"
             /\ k = IF percentage < 1 THEN 1 ELSE max_k
             /\ output_dir # {}

\* A direct call with 101 percent returned a saved image of full rank.
C3_Witness ==
    /\ caller = "direct"
    /\ Succeeded
    /\ percentage = 101
    /\ k = max_k
    /\ output_dir # {}

\* C4: the output buffer has the input's height and width and exactly
\* three channels, for every decoded array the function processes.
C4_ThreeChannelOutput ==
    compressed_img_array # <<>>
        => compressed_img_array = <<file.height, file.width, 3>>

\* C6 as claimed: the call either returns a compressed image with runtime
\* and metric, or fails with UnsupportedImageShape, InvalidCompressionRate
\* or DecompositionError and returns nothing.
C6_TwoOutcomes ==
    pc \in {"returned", "raised"}
        => \/ /\ result.path = "compressed"
              /\ raised = "none"
           \/ /\ raised \in {"UnsupportedImageShape", "InvalidCompressionRate",
                             "DecompositionError"}
              /\ result = NoResult

\* C6 as amended: the call ends in one of three ways.  It returns the path
\* of the saved image with runtime and metric; or the image could not be
\* opened and it returns (None, 0, 0), nothing saved; or the decomposition
\* or the save raised (LinAlgError, OSError), which propagates with nothing
\* returned.  A path is never returned without the image saved and both
\* numbers computed.
C6_NoPartialResult ==
    pc \in {"returned", "raised"}
        => \/ /\ result.path = "compressed"
              /\ raised = "none"
              /\ file.kind = "image"
              /\ [percentage |-> percentage,
                  shape |-> compressed_img_array] \in output_dir
              /\ end_time # -1
              /\ result.runtime_ms = end_time - start_time
              /\ FracEq(result.metric, <<100 * (max_k - k), max_k>>)
           \/ /\ result = [path |-> "None", runtime_ms |-> 0,
                           metric |-> <<0, 1>>]
              /\ raised = "none"
              /\ file.kind # "image"
              /\ output_dir = {}
           \/ /\ raised \in {"LinAlgError", "OSError"}
              /\ result = NoResult

\* Bytes that are no image made the call return (None, 0, 0).
C6_Witness ==
    /\ pc = "returned"
    /\ file.kind = "garbage"
    /\ result.path = "None"
    /\ raised = "none"

\* C7: for a fixed image size the rank never decreases as the percentage
\* grows over 1..100, and 1 <= k <= min(height, width).
C7_RankMonotoneBounded ==
    (RankSelected /\ percentage \in ValidPercentages)
        => /\ 1 <= k
           /\ k <= max_k
           /\ (pc = "svd" /\ i = 0)
                 => \A q \in ValidPercentages :
                       /\ q <= percentage => Rank(max_k, q) <= k
                       /\ q >= percentage => k <= Rank(max_k, q)

\* The rank of a 150-row image at 82 percent was selected: 122, where the
\* double-precision product falls below 123.
C7_Witness ==
    /\ pc = "svd"
    /\ i = 0
    /\ max_k = 150
    /\ percentage = 82
    /\ k = 122

\* C8: the returned metric is 100 * (1 - k / max_k), and for a fixed image
\* size it never increases as the percentage grows over 1..100; on a
\* 100x150 image the metric at 50 is greater than the metric at 90.
C8_MetricComplementMonotone ==
    Succeeded
        => /\ FracEq(result.metric, <<100 * (max_k - k), max_k>>)
           /\ percentage \in ValidPercentages
                 => \A q \in ValidPercentages :
                       q >= percentage
                          => FracLeq(Metric(Rank(max_k, q), max_k),
                                     result.metric)
           /\ (max_k = 100 /\ percentage = 50)
                 => ~FracLeq(result.metric, Metric(Rank(100, 90), 100))

\* The scenario's 100x150 RGB image at 50 percent: rank 50, metric 50.
C8_Witness ==
    /\ Succeeded
    /\ file = [kind |-> "image", mode |-> "RGB", height |-> 100, width |-> 150]
    /\ percentage = 50
    /\ k = 50
    /\ result.metric = <<5000, 100>>

\* C9 as claimed: the timer starts after decoding and normalisation and
\* stops before restacking, clamping and saving.
C9_TimerAroundSvdOnly ==
    /\ pc \in {"open", "normalize", "rank"} => start_time = -1
    /\ pc \in {"save", "stop"} => end_time # -1

\* C9 as amended: in svd_compressor.compress_image_svd the timer starts on
\* entry, before the output directory is made and the image is decoded and
\* normalised, and stops after the image is saved: the reported runtime
\* covers every step of the call.
C9_TimerAroundWholeCall ==
    /\ pc \in {"open", "normalize", "rank", "svd", "save", "stop"}
          => /\ start_time = 0
             /\ end_time = -1
    /\ Succeeded
          => /\ end_time = now - 1
             /\ result.runtime_ms = end_time - start_time
             /\ result.runtime_ms = 6 + img_array[3]

\* A call returned with the save inside the measured window.
C9_Witness ==
    /\ Succeeded
    /\ start_time = 0
    /\ end_time = 9
    /\ result.runtime_ms = 9
    /\ output_dir # {}

(***************************************************************************)
(* Properties of the /compress route (specification SpecApp).              *)
(***************************************************************************)
\* C5: the image saved for a request and the compression_time reported to
\* it are those of the request's own compression.
C5_OwnCompression ==
    \A r \in Reqs :
       /\ loc[r].saved # NoImage => loc[r].saved = loc[r].computed
       /\ resp[r].status = "200" => resp[r].compression_time = r

\* C10: once the temporary upload is saved, it is gone when the response
\* is returned, on success and on error.
C10_TempRemoved ==
    \A r \in Reqs :
       (rpc[r] = "done" /\ loc[r].temp_saved) => uploads[req[r].filename] # r

=============================================================================
